---- MODULE Spec2Model ----
(***************************************************************************)
(* Model of "Local Implementation/IVS.py": the contact network with an     *)
(* encrypted infection-status vector on its diagonal, the breadth-first    *)
(* risk traversal calculate_ivs_score, and the interaction loop of main.   *)
(*                                                                         *)
(* Real numbers are fixed-point integers in units of 1/SCALE.  A CKKS      *)
(* ciphertext is a record holding its plaintext slots; the program never   *)
(* reads the slots except through HAdd, HMul and decrypt.  The fields      *)
(* owner and terms of a ciphertext are history: whose stored status vector *)
(* it is, and which persons' status vectors were folded into it.           *)
(*                                                                         *)
(* The second part models the three programs of "Simulation": 1.py and     *)
(* 2.py (trusted authority, miners and users exchanging signed messages;   *)
(* Python dicts live in a heap and are held by reference) and 3.py (the    *)
(* simpy processes writing the contact graph).                             *)
(***************************************************************************)
EXTENDS Integers, Sequences, FiniteSets, TLC

\* ------------------------------------------------------------- bounds
\* NUM_PEOPLE is 50 and NUM_INFECTIONS is 5 in the source.
NUM_PEOPLE == 3
NUM_INFECTIONS == 2
MaxQueries == 2

\* Simulation/1.py and 2.py create three users and run one or two
\* interactions; 3.py has NUM_BAN_USERS = 5 and runs until time 50.
NumBanUsers == 3
MaxInteractions == 2
NUM_BAN_USERS == 3
Horizon == 8

\* ---------------------------------------------------------- constants
TRANSACTION_DELAY == 2
THRESHOLD_SAFE == 800
THRESHOLD_CAUTION == 1200
alpha == 5

SCALE == 2 * 2 * 2 * 2 * 2 * 2 * 2

Persons == 0 .. (NUM_PEOPLE - 1)
Infections == 1 .. NUM_INFECTIONS
NoOwner == 0 - 1

VARIABLES
    pc,                   \* position of main / calculate_ivs_score
    adjacency_matrix,     \* [Persons -> [Persons -> cell]]
    infected_statuses,    \* [Persons -> [Infections -> 0..1]], plaintext kept by main
    queries,              \* number of queries finished (bounded by MaxQueries)
    A_index,              \* the queried person
    susceptibility_factor,
    severity_factors,     \* [Persons -> [Infections -> fixed-point]]
    weights,              \* [Infections -> fixed-point]
    iw_seed,              \* seed of the interaction_weight draws of this query
    max_distance,         \* the depth limit of the traversal (line 73)
    rng_seed,             \* state of the random generator when a query starts
    trav,                 \* traversal state: visited, queue, ivs_scores and history
    shadow,               \* a second traversal run in lockstep (other statuses)
    shadow_matrix,        \* the second run's network
    encrypted_ivs_scores, \* what calculate_ivs_score returned
    decrypted_ivs_scores,
    classifications,
    final_ivs_score,
    decrypt_log,          \* history: every ciphertext passed to decrypt, with pc
    input_line,           \* the line read at the prompt (line 133)
    output                \* what the current pass of main's loop has printed

\* the state of the programs of Simulation/
VARIABLES
    heap,                 \* the dict objects: [reference -> [key -> value]]
    trusted_authority,    \* 1.py, 2.py: the TrustedAuthority object
    miners,               \* 1.py, 2.py: [miner_id -> the Miner object]
    interaction,          \* 1.py, 2.py: the frame of simulate_ban_user_interaction
    last_receive,         \* history: the last call of a miner's receive method
    contact_graph,        \* 3.py: the global dict contact_graph
    env,                  \* 3.py: the simpy environment (clock and event queue)
    users                 \* 3.py: [user_id -> position of that user's run()]

ivs_vars == <<pc, adjacency_matrix, infected_statuses, queries, A_index,
              susceptibility_factor, severity_factors, weights, iw_seed,
              max_distance, rng_seed, trav,
              shadow, shadow_matrix, encrypted_ivs_scores, decrypted_ivs_scores,
              classifications, final_ivs_score, decrypt_log, input_line, output>>

sim_vars == <<heap, trusted_authority, miners, interaction, last_receive,
              contact_graph, env, users>>

vars == <<ivs_vars, sim_vars>>

\* the programs of Simulation/ are not running
SimIdle ==
    /\ heap = <<>>
    /\ trusted_authority = <<>>
    /\ miners = <<>>
    /\ interaction = <<>>
    /\ last_receive = <<>>
    /\ contact_graph = <<>>
    /\ env = <<>>
    /\ users = <<>>

\* ------------------------------------------------ fixed-point helpers
Fx(n) == n * SCALE

FxMul(a, b) == (a * b) \div SCALE

\* 1 / ci^distance, by repeated division
RECURSIVE FxInvPow(_, _)
FxInvPow(ci, distance) ==
    IF distance = 0 THEN SCALE
    ELSE (FxInvPow(ci, distance - 1) * SCALE) \div ci

\* --------------------------------------- HomomorphicEncryptionWrapper
encrypt(data_list) ==
    [type |-> "CKKSVector", slots |-> data_list, owner |-> NoOwner, terms |-> <<>>]

\* CKKS is approximate: each decoded slot is off by a small error.
DecodeNoise == {-1, 0, 1}

decrypt(encrypted_data, noise) ==
    [j \in Infections |-> encrypted_data.slots[j] + noise[j]]

\* ciphertext * ciphertext, element-wise
HMul(a, b) ==
    [type |-> "CKKSVector",
     slots |-> [j \in Infections |-> FxMul(a.slots[j], b.slots[j])],
     owner |-> NoOwner,
     terms |-> (IF a.owner # NoOwner THEN <<a.owner>> ELSE a.terms)
               \o (IF b.owner # NoOwner THEN <<b.owner>> ELSE b.terms)]

\* ciphertext + ciphertext, element-wise
HAdd(a, b) ==
    [type |-> "CKKSVector",
     slots |-> [j \in Infections |-> a.slots[j] + b.slots[j]],
     owner |-> NoOwner,
     terms |-> (IF a.owner # NoOwner THEN <<a.owner>> ELSE a.terms)
               \o (IF b.owner # NoOwner THEN <<b.owner>> ELSE b.terms)]

\* ------------------------------------------------------- random draws
\* A draw is taken from a short list of sample values; which one is fixed by
\* a seed chosen when the drawing code runs, and by the index of the draw.
Sample(samples, k) == samples[(k % Len(samples)) + 1]

\* random.uniform(0, 10): always a float
WeightSamples == <<0, 320, 960, 1279>>
\* random.randint(0, 1), laid out per (person, infection)
StatusSeeds == 0 .. 2
StatusDraw(seed, i, j) ==
    IF seed = 0 THEN 0 ELSE IF seed = 1 THEN 1 ELSE (i + j) % 2
\* random.uniform(0.5, 2.0)
SusceptibilitySamples == <<64, 256>>
\* random.uniform(0.1, 2.0)
SeveritySamples == <<64, 256>>
\* random.uniform(0.1, 1.0)
InfectionSeveritySamples == <<16, 128, 64>>
\* random.uniform(0.5, 1.0)
InteractionSamples == <<64, 128>>

FloatCell(v) == [type |-> "float", val |-> v]
IntCell(v) == [type |-> "int", val |-> v]

\* -------------------------------------------- generate_adjacency_matrix
\* a bug: the diagonal keeps the placeholder 0 of line 30
generate_adjacency_matrix_NoDiagonal(wseed, statuses) ==
    [i \in Persons |-> [j \in Persons |->
        IF i # j
        THEN FloatCell(Sample(WeightSamples, wseed + i * NUM_PEOPLE + j))
        ELSE IntCell(0)]]

\* lines 34, 37: person i's encrypted status vector, stored at (i, i)
StatusCell(statuses, i) ==
    [encrypt([k \in Infections |-> Fx(statuses[i][k])]) EXCEPT !.owner = i]

generate_adjacency_matrix(wseed, statuses) ==
    [i \in Persons |-> [j \in Persons |->
        IF i # j
        THEN FloatCell(Sample(WeightSamples, wseed + i * NUM_PEOPLE + j))
        ELSE StatusCell(statuses, i)]]

StatusVectors(seed) ==
    [i \in Persons |-> [j \in Infections |-> StatusDraw(seed, i, j)]]

\* ------------------------------------------------- calculate_ivs_score
\* a bug: the visited test is missing
Discard_DistanceOnly(visited, person, distance) ==
    distance > max_distance

\* a bug: entries at the depth limit are dropped as well
Discard_Strict(visited, person, distance) ==
    distance >= max_distance \/ person \in visited

\* a bug: the depth limit is off by one
Discard_OffByOne(visited, person, distance) ==
    distance > max_distance + 1 \/ person \in visited

\* line 81: the popped entry is dropped
Discard(visited, person, distance) ==
    distance > max_distance \/ person \in visited

\* a bug: visited neighbors are not skipped
SkipNeighbor_Never(visited, neighbor) == FALSE

\* line 86: previously visited neighbors are skipped
SkipNeighbor(visited, neighbor) == neighbor \in visited

\* a bug: any positive weight activates the edge, whatever its type
EdgeActive_NoTypeCheck(mat, person, neighbor) ==
    mat[person][neighbor].val > 0

\* a bug: the test also looks into the neighbor's status vector
EdgeActive_IfInfected(mat, person, neighbor) ==
    /\ mat[person][neighbor].type = "int"
    /\ mat[person][neighbor].val > 0
    /\ mat[neighbor][neighbor].slots[1] > 0

\* line 89: isinstance(cell, int) and cell > 0
EdgeActive(mat, person, neighbor) ==
    /\ mat[person][neighbor].type = "int"
    /\ mat[person][neighbor].val > 0

\* line 94: the per-infection contribution of one active neighbor
IvsContribution(ci_vector, interaction_weight, distance, susceptibility) ==
    [j \in Infections |->
        FxMul(FxMul(interaction_weight, FxInvPow(ci_vector[j], distance)),
              susceptibility)]

\* a bug: the contribution is added but the neighbor is not enqueued
ActiveNeighbor_NoEnqueue(mat, q, person, distance, t, neighbor) ==
    LET encrypted_status == mat[neighbor][neighbor]
        ci_vector == q.severity_factors[neighbor]
        interaction_weight == Sample(InteractionSamples, q.iw_seed + t.draws)
        ivs_contribution ==
            IvsContribution(ci_vector, interaction_weight, distance,
                            q.susceptibility_factor)
        encrypted_ivs_contribution == encrypt(ivs_contribution)
    IN  [t EXCEPT
            !.reads = @ \cup {<<neighbor, neighbor, "status">>},
            !.draws = @ + 1,
            !.ivs_scores = HAdd(@, HMul(encrypted_status, encrypted_ivs_contribution))]

\* lines 90-99: the body of the if, for one active neighbor
ActiveNeighbor(mat, q, person, distance, t, neighbor) ==
    LET encrypted_status == mat[neighbor][neighbor]
        ci_vector == q.severity_factors[neighbor]
        interaction_weight == Sample(InteractionSamples, q.iw_seed + t.draws)
        ivs_contribution ==
            IvsContribution(ci_vector, interaction_weight, distance,
                            q.susceptibility_factor)
        encrypted_ivs_contribution == encrypt(ivs_contribution)
    IN  [t EXCEPT
            !.reads = @ \cup {<<neighbor, neighbor, "status">>},
            !.draws = @ + 1,
            !.ivs_scores = HAdd(@, HMul(encrypted_status, encrypted_ivs_contribution)),
            !.queue = Append(@, <<neighbor, distance + 1>>),
            !.enq_log = Append(@, <<neighbor, distance + 1, person>>)]

\* lines 85-99: the for loop over range(NUM_PEOPLE), from neighbor on
RECURSIVE ForNeighbors(_, _, _, _, _, _)
ForNeighbors(mat, q, person, distance, t, neighbor) ==
    IF neighbor >= NUM_PEOPLE THEN t
    ELSE IF SkipNeighbor(t.visited, neighbor)
         THEN ForNeighbors(mat, q, person, distance, t, neighbor + 1)
         ELSE LET t1 == [t EXCEPT !.reads = @ \cup {<<person, neighbor, "weight">>}]
                  t2 == IF EdgeActive(mat, person, neighbor)
                        THEN ActiveNeighbor(mat, q, person, distance, t1, neighbor)
                        ELSE t1
              IN  ForNeighbors(mat, q, person, distance, t2, neighbor + 1)

\* a bug: the queue is used as a stack (queue.pop() for queue.pop(0))
WhileBody_Lifo(mat, q, t) ==
    LET person == t.queue[Len(t.queue)][1]
        distance == t.queue[Len(t.queue)][2]
        t0 == [t EXCEPT !.queue = SubSeq(@, 1, Len(@) - 1), !.pops = @ + 1]
    IN  IF Discard(t.visited, person, distance)
        THEN t0
        ELSE ForNeighbors(mat, q, person, distance,
                 [t0 EXCEPT !.visited = @ \cup {person},
                            !.visit_log = Append(@, <<person, distance>>)],
                 0)

\* a bug: queue[0] is read but not removed
WhileBody_NoPop(mat, q, t) ==
    LET person == Head(t.queue)[1]
        distance == Head(t.queue)[2]
    IN  IF Discard(t.visited, person, distance)
        THEN t
        ELSE ForNeighbors(mat, q, person, distance,
                 [t EXCEPT !.visited = @ \cup {person},
                           !.visit_log = Append(@, <<person, distance>>)],
                 0)

\* lines 80-99: one iteration of the while loop
WhileBody(mat, q, t) ==
    LET person == Head(t.queue)[1]
        distance == Head(t.queue)[2]
        t0 == [t EXCEPT !.queue = Tail(@), !.pops = @ + 1]
    IN  IF Discard(t.visited, person, distance)
        THEN t0
        ELSE ForNeighbors(mat, q, person, distance,
                 [t0 EXCEPT !.visited = @ \cup {person},
                            !.visit_log = Append(@, <<person, distance>>)],
                 0)

\* a bug: visited is kept from one call to the next, as a module-level set
\* or a mutable default argument would be
FreshTraversal_KeepsVisited(origin) ==
    [visited |-> trav.visited,
     queue |-> <<<<origin, 0>>>>,
     ivs_scores |-> encrypt([j \in Infections |-> Fx(alpha)]),
     visit_log |-> <<>>,
     enq_log |-> <<>>,
     reads |-> {},
     draws |-> 0,
     pops |-> 0]

\* lines 74-77: the state the traversal starts from
FreshTraversal(origin) ==
    [visited |-> {},
     queue |-> <<<<origin, 0>>>>,
     ivs_scores |-> encrypt([j \in Infections |-> Fx(alpha)]),
     visit_log |-> <<>>,
     enq_log |-> <<>>,
     reads |-> {},
     draws |-> 0,
     pops |-> 0]

\* the traversal state outside a query
NoTraversal ==
    [visited |-> {}, queue |-> <<>>, ivs_scores |-> encrypt(<<>>),
     visit_log |-> <<>>, enq_log |-> <<>>, reads |-> {}, draws |-> 0, pops |-> 0]

\* a bug: the severities are divided by the largest one, not by their sum
NormalisedWeights_ByMax(infection_severities) ==
    LET largest == CHOOSE m \in {infection_severities[j] : j \in Infections} :
                       \A j \in Infections : infection_severities[j] <= m
    IN  [j \in Infections |-> (infection_severities[j] * SCALE) \div largest]

\* lines 70-71: the severities divided by their sum, each quotient rounded
\* to the precision of the number format
NormalisedWeights(infection_severities) ==
    LET RECURSIVE Sum(_)
        Sum(j) == IF j = 0 THEN 0 ELSE infection_severities[j] + Sum(j - 1)
        total_severity == Sum(NUM_INFECTIONS)
    IN  [j \in Infections |-> (infection_severities[j] * SCALE) \div total_severity]

\* lines 69-71: normalised infection severities
Weights(seed) ==
    NormalisedWeights([j \in Infections |->
                          Sample(InfectionSeveritySamples, seed + j)])

QueryEnv ==
    [severity_factors |-> severity_factors,
     susceptibility_factor |-> susceptibility_factor,
     iw_seed |-> iw_seed]

\* ------------------------------------------------------------- main
\* lines 103-113
classify_ivs_score(ivs_scores) ==
    [i \in DOMAIN ivs_scores |->
        [infection |-> i,
         label |-> IF ivs_scores[i] < Fx(THRESHOLD_SAFE) THEN "safe"
                   ELSE IF ivs_scores[i] < Fx(THRESHOLD_CAUTION) THEN "caution"
                   ELSE "high_risk"]]

\* a bug: the bounds of the tiers are inclusive above
get_final_decision_Inclusive(score) ==
    IF score <= Fx(THRESHOLD_SAFE) THEN "allowed"
    ELSE IF score <= Fx(THRESHOLD_CAUTION) THEN "avoid_large_gatherings"
    ELSE "not_allowed"

\* lines 115-122
get_final_decision(score) ==
    IF score < Fx(THRESHOLD_SAFE) THEN "allowed"
    ELSE IF score < Fx(THRESHOLD_CAUTION) THEN "avoid_large_gatherings"
    ELSE "not_allowed"

\* a bug: the scores are added up without their weights
RECURSIVE WeightedSum_Unweighted(_, _, _)
WeightedSum_Unweighted(scores, w, i) ==
    IF i = 0 THEN 0 ELSE scores[i] + WeightedSum_Unweighted(scores, w, i - 1)

\* line 150
RECURSIVE WeightedSum(_, _, _)
WeightedSum(scores, w, i) ==
    IF i = 0 THEN 0 ELSE FxMul(scores[i], w[i]) + WeightedSum(scores, w, i - 1)

\* what a user may type: "exit"; a word; "-1", an integer with a minus sign;
\* decimal digits; and a digit character such as a superscript two, which
\* str.isdigit accepts and int() rejects
Inputs ==
    {[kind |-> "exit", val |-> 0], [kind |-> "text", val |-> 0],
     [kind |-> "digitlike", val |-> 2]}
    \cup {[kind |-> "minus", val |-> 0 - v] : v \in 1 .. 1}
    \cup {[kind |-> "digits", val |-> v] : v \in 0 .. (NUM_PEOPLE + 1)}

NoInput == [kind |-> "none", val |-> 0]

\* str.isdigit (line 137): false for text and for a leading minus sign
IsDigit(inp) == inp.kind \in {"digits", "digitlike"}

\* int(A_index) (line 141) raises ValueError
IntRaises(inp) == inp.kind = "digitlike"

NoVector == <<>>

\* the locals of main's loop body before they are assigned
ClearQuery ==
    /\ susceptibility_factor' = 0
    /\ severity_factors' = NoVector
    /\ weights' = NoVector
    /\ iw_seed' = 0
    /\ max_distance' = 0
    /\ encrypted_ivs_scores' = encrypt(NoVector)
    /\ decrypted_ivs_scores' = NoVector
    /\ classifications' = NoVector
    /\ final_ivs_score' = 0

\* lines 41-59: start-up prints the network and decrypts every status vector
PrintAdjacencyMatrix ==
    /\ pc = "print"
    /\ decrypt_log' = decrypt_log \o
           [k \in 1 .. NUM_PEOPLE |->
               [arg |-> adjacency_matrix[k - 1][k - 1], at |-> "print"]]
    /\ output' = <<"matrix">>
    /\ pc' = "input"
    /\ UNCHANGED <<sim_vars, input_line, max_distance, adjacency_matrix, infected_statuses, queries, A_index,
                   susceptibility_factor, severity_factors, weights, iw_seed,
                   rng_seed, trav, shadow, shadow_matrix, encrypted_ivs_scores,
                   decrypted_ivs_scores, classifications, final_ivs_score>>

\* a bug: the upper bound of the range check is off by one
Prompt_OffByOne ==
    /\ pc = "input"
    /\ \E inp \in Inputs :
        /\ inp.kind # "exit" => queries < MaxQueries
        /\ input_line' = inp
        /\ ClearQuery
        /\ IF inp.kind = "exit"
           THEN pc' = "exit" /\ output' = <<>>
           ELSE IF ~IsDigit(inp)
           THEN pc' = "input" /\ output' = <<"invalid_input">>
           ELSE IF IntRaises(inp)
           THEN pc' = "input" /\ output' = <<"error">>
           ELSE IF inp.val < 0 \/ inp.val > NUM_PEOPLE
           THEN pc' = "input" /\ output' = <<"invalid_index">>
           ELSE pc' = "call" /\ output' = <<>>
        /\ A_index' = IF IsDigit(inp) /\ ~IntRaises(inp) THEN inp.val ELSE NoOwner
    /\ UNCHANGED <<sim_vars, adjacency_matrix, infected_statuses, queries, rng_seed,
                   trav, shadow, shadow_matrix, decrypt_log>>

\* lines 133-144: read one line and validate it.  The traversal state of the
\* last call is left as it was: the next call overwrites it.
Prompt ==
    /\ pc = "input"
    /\ \E inp \in Inputs :
        /\ inp.kind # "exit" => queries < MaxQueries
        /\ input_line' = inp
        /\ ClearQuery
        /\ IF inp.kind = "exit"
           THEN pc' = "exit" /\ output' = <<>>
           ELSE IF ~IsDigit(inp)
           THEN pc' = "input" /\ output' = <<"invalid_input">>
           ELSE IF IntRaises(inp)
           THEN pc' = "input" /\ output' = <<"error">>
           ELSE IF inp.val < 0 \/ inp.val >= NUM_PEOPLE
           THEN pc' = "input" /\ output' = <<"invalid_index">>
           ELSE pc' = "call" /\ output' = <<>>
        /\ A_index' = IF IsDigit(inp) /\ ~IntRaises(inp) THEN inp.val ELSE NoOwner
    /\ UNCHANGED <<sim_vars, adjacency_matrix, infected_statuses, queries, rng_seed,
                   trav, shadow, shadow_matrix, decrypt_log>>

RngSeeds == 0 .. 1

\* line 73 sets max_distance to 5, a limit that binds among 50 persons.  Among
\* NUM_PEOPLE persons the model also runs the limits that bind there.
DistanceLimits == {1, 2, 5}

\* lines 64-77: the draws and the fresh traversal state of one query
StartQuery ==
    /\ pc = "call"
    /\ \E seed \in RngSeeds :
        /\ rng_seed' = seed
        /\ susceptibility_factor' = Sample(SusceptibilitySamples, seed)
        /\ severity_factors' =
               [i \in Persons |-> [j \in Infections |->
                   Sample(SeveritySamples, seed + i + j)]]
        /\ weights' = Weights(seed)
        /\ iw_seed' = seed
    /\ max_distance' \in DistanceLimits
    /\ trav' = FreshTraversal(A_index)
    /\ pc' = "while"
    /\ UNCHANGED <<sim_vars, input_line, adjacency_matrix, infected_statuses, queries, A_index,
                   shadow_matrix, encrypted_ivs_scores,
                   decrypted_ivs_scores, classifications, final_ivs_score,
                   decrypt_log, output>>

CalculateStart == StartQuery /\ UNCHANGED shadow

\* lines 79-99: one iteration of the while loop
\* a bug: the loop decrypts the status of the person it pops
Iterate_Decrypting ==
    /\ pc = "while"
    /\ trav.queue # <<>>
    /\ trav' = WhileBody(adjacency_matrix, QueryEnv, trav)
    /\ decrypt_log' = Append(decrypt_log,
           [arg |-> adjacency_matrix[Head(trav.queue)[1]][Head(trav.queue)[1]],
            at |-> "while"])
    /\ UNCHANGED <<sim_vars, input_line, max_distance, pc, adjacency_matrix, infected_statuses, queries, A_index,
                   susceptibility_factor, severity_factors, weights, iw_seed,
                   rng_seed, shadow_matrix, encrypted_ivs_scores,
                   decrypted_ivs_scores, classifications, final_ivs_score,
                   output>>

Iterate ==
    /\ pc = "while"
    /\ trav.queue # <<>>
    /\ trav' = WhileBody(adjacency_matrix, QueryEnv, trav)
    /\ UNCHANGED <<sim_vars, input_line, max_distance, pc, adjacency_matrix, infected_statuses, queries, A_index,
                   susceptibility_factor, severity_factors, weights, iw_seed,
                   rng_seed, shadow_matrix, encrypted_ivs_scores,
                   decrypted_ivs_scores, classifications, final_ivs_score,
                   decrypt_log, output>>

WhileIter == Iterate /\ UNCHANGED shadow

\* line 101: the queue is empty
Return ==
    /\ pc = "while"
    /\ trav.queue = <<>>
    /\ encrypted_ivs_scores' = trav.ivs_scores
    /\ pc' = "returned"
    /\ UNCHANGED <<sim_vars, input_line, max_distance, adjacency_matrix, infected_statuses, queries, A_index,
                   susceptibility_factor, severity_factors, weights, iw_seed,
                   rng_seed, trav, shadow, shadow_matrix, decrypted_ivs_scores,
                   classifications, final_ivs_score, decrypt_log, output>>

\* a bug: the queried person's own status vector is decrypted as well
Decrypt_AlsoStatus ==
    /\ pc = "returned"
    /\ \E noise \in [Infections -> DecodeNoise] :
        decrypted_ivs_scores' = decrypt(encrypted_ivs_scores, noise)
    /\ decrypt_log' = decrypt_log \o
           <<[arg |-> adjacency_matrix[A_index][A_index], at |-> "query"],
             [arg |-> encrypted_ivs_scores, at |-> "query"]>>
    /\ pc' = "classify"
    /\ UNCHANGED <<sim_vars, input_line, max_distance, adjacency_matrix, infected_statuses, queries, A_index,
                   susceptibility_factor, severity_factors, weights, iw_seed,
                   rng_seed, trav, shadow, shadow_matrix, encrypted_ivs_scores,
                   classifications, final_ivs_score, output>>

\* line 147
Decrypt ==
    /\ pc = "returned"
    /\ \E noise \in [Infections -> DecodeNoise] :
        decrypted_ivs_scores' = decrypt(encrypted_ivs_scores, noise)
    /\ decrypt_log' = Append(decrypt_log,
                             [arg |-> encrypted_ivs_scores, at |-> "query"])
    /\ pc' = "classify"
    /\ UNCHANGED <<sim_vars, input_line, max_distance, adjacency_matrix, infected_statuses, queries, A_index,
                   susceptibility_factor, severity_factors, weights, iw_seed,
                   rng_seed, trav, shadow, shadow_matrix, encrypted_ivs_scores,
                   classifications, final_ivs_score, output>>

\* lines 148-150: classification and composite score
Score ==
    /\ pc = "classify"
    /\ classifications' = classify_ivs_score(decrypted_ivs_scores)
    /\ final_ivs_score' = WeightedSum(decrypted_ivs_scores, weights, NUM_INFECTIONS)
    /\ pc' = "report"
    /\ UNCHANGED <<sim_vars, input_line, max_distance, adjacency_matrix, infected_statuses,
                   queries, A_index, susceptibility_factor, severity_factors,
                   weights, iw_seed, rng_seed, trav, shadow, shadow_matrix,
                   encrypted_ivs_scores, decrypted_ivs_scores, decrypt_log,
                   output>>

\* lines 152-162: the prints of a successful query
Report ==
    /\ pc = "report"
    /\ output' = output \o <<"scores", "final", "classification",
                              get_final_decision(final_ivs_score)>>
    /\ queries' = queries + 1
    /\ pc' = "input"
    /\ UNCHANGED <<sim_vars, input_line, max_distance, adjacency_matrix, infected_statuses,
                   A_index, susceptibility_factor, severity_factors, weights,
                   iw_seed, rng_seed, trav, shadow, shadow_matrix,
                   encrypted_ivs_scores, decrypted_ivs_scores, classifications,
                   final_ivs_score, decrypt_log>>

WeightSeeds == 0 .. 2

\* lines 125-127: the state when main has built the network
Init ==
    /\ pc = "print"
    /\ \E wseed \in WeightSeeds, sseed \in StatusSeeds :
        /\ infected_statuses = StatusVectors(sseed)
        /\ adjacency_matrix = generate_adjacency_matrix(wseed, infected_statuses)
    /\ queries = 0
    /\ A_index = NoOwner
    /\ susceptibility_factor = 0
    /\ severity_factors = NoVector
    /\ weights = NoVector
    /\ iw_seed = 0
    /\ max_distance = 0
    /\ rng_seed = 0
    /\ trav = NoTraversal
    /\ shadow = NoTraversal
    /\ shadow_matrix = NoVector
    /\ encrypted_ivs_scores = encrypt(NoVector)
    /\ decrypted_ivs_scores = NoVector
    /\ classifications = NoVector
    /\ final_ivs_score = 0
    /\ decrypt_log = <<>>
    /\ input_line = NoInput
    /\ output = <<>>
    /\ SimIdle

Next ==
    \/ PrintAdjacencyMatrix
    \/ Prompt
    \/ CalculateStart
    \/ WhileIter
    \/ Return
    \/ Decrypt
    \/ Score
    \/ Report

Spec == Init /\ [][Next]_vars

\* ------------------------------------- calculate_ivs_score on any network
\* The function accepts any matrix: off-diagonal cells may be Python ints as
\* well as floats.  An active edge holds a positive int; every other edge
\* holds a float, a zero or a negative int.
OffDiagonal == {e \in Persons \X Persons : e[1] # e[2]}

ActiveSamples == <<1, 3>>

InactiveSamples == <<FloatCell(960), IntCell(0), FloatCell(Fx(3)), IntCell(0 - 2)>>

FillSeeds == 0 .. 1

AnyNetwork(active, fseed, statuses) ==
    [i \in Persons |-> [j \in Persons |->
        IF i = j THEN StatusCell(statuses, i)
        ELSE IF <<i, j>> \in active
        THEN IntCell(Sample(ActiveSamples, i + j))
        ELSE Sample(InactiveSamples, fseed + i * NUM_PEOPLE + j)]]

\* the arguments of one call: any network over the given seeds, any origin
CallInit(fseeds, sseeds) ==
    /\ pc = "call"
    /\ \E active \in SUBSET OffDiagonal, fseed \in fseeds, sseed \in sseeds :
        /\ infected_statuses = StatusVectors(sseed)
        /\ adjacency_matrix = AnyNetwork(active, fseed, infected_statuses)
    /\ A_index \in Persons
    /\ queries = 0
    /\ susceptibility_factor = 0
    /\ severity_factors = NoVector
    /\ weights = NoVector
    /\ iw_seed = 0
    /\ max_distance = 0
    /\ rng_seed = 0
    /\ trav = NoTraversal
    /\ shadow = NoTraversal
    /\ shadow_matrix = NoVector
    /\ encrypted_ivs_scores = encrypt(NoVector)
    /\ decrypted_ivs_scores = NoVector
    /\ classifications = NoVector
    /\ final_ivs_score = 0
    /\ decrypt_log = <<>>
    /\ input_line = NoInput
    /\ output = <<>>
    /\ SimIdle

TravInit == CallInit(FillSeeds, StatusSeeds)

TravNext ==
    \/ CalculateStart
    \/ WhileIter
    \/ Return

TravSpec == TravInit /\ [][TravNext]_vars

\* The loop is sequential code: it keeps running until it returns.  The values
\* of the inactive weights and of the statuses play no part in termination:
\* one filling and one status layout are run.
LiveInit == CallInit({0}, {2})

TravLive == LiveInit /\ [][TravNext]_vars /\ WF_vars(TravNext)

\* ------------------------- two runs of calculate_ivs_score, side by side
\* Same edge weights, same origin, same random draws; the status vectors on
\* the diagonal differ.  Each step runs one loop iteration of both runs.
NIInit ==
    /\ pc = "call"
    /\ \E active \in SUBSET OffDiagonal, fseed \in FillSeeds,
          sseed \in StatusSeeds, sseed2 \in StatusSeeds :
        /\ sseed < sseed2
        /\ infected_statuses = StatusVectors(sseed)
        /\ adjacency_matrix = AnyNetwork(active, fseed, infected_statuses)
        /\ shadow_matrix = AnyNetwork(active, fseed, StatusVectors(sseed2))
    /\ A_index \in Persons
    /\ queries = 0
    /\ susceptibility_factor = 0
    /\ severity_factors = NoVector
    /\ weights = NoVector
    /\ iw_seed = 0
    /\ max_distance = 0
    /\ rng_seed = 0
    /\ trav = NoTraversal
    /\ shadow = NoTraversal
    /\ encrypted_ivs_scores = encrypt(NoVector)
    /\ decrypted_ivs_scores = NoVector
    /\ classifications = NoVector
    /\ final_ivs_score = 0
    /\ decrypt_log = <<>>
    /\ input_line = NoInput
    /\ output = <<>>
    /\ SimIdle

NIStart == StartQuery /\ shadow' = FreshTraversal(A_index)

NIWhile ==
    /\ Iterate
    /\ shadow' = IF shadow.queue = <<>> THEN shadow
                 ELSE WhileBody(shadow_matrix, QueryEnv, shadow)

NINext ==
    \/ NIStart
    \/ NIWhile
    \/ Return

NISpec == NIInit /\ [][NINext]_vars

\* --------------------------------- weights and scoring on any decoded vector
\* decoded scores below, at and above the two thresholds
ScoreSamples ==
    {0 - Fx(alpha), Fx(alpha),
     Fx(THRESHOLD_SAFE) - 1, Fx(THRESHOLD_SAFE), Fx(THRESHOLD_SAFE) + 1,
     Fx(THRESHOLD_CAUTION) - 1, Fx(THRESHOLD_CAUTION), Fx(THRESHOLD_CAUTION) + 1,
     Fx(THRESHOLD_SAFE + THRESHOLD_CAUTION)}

\* line 69: random.uniform(0.1, 1.0), from 0.1 to 1.0 in fixed point
SeverityGrid == {(SCALE + 9) \div 10, SCALE \div 8, SCALE \div 2,
                 (SCALE * 3) \div 4, SCALE}

\* the arguments of the scoring: any decoded vector
ScoreInit ==
    /\ pc = "weights"
    /\ decrypted_ivs_scores \in [Infections -> ScoreSamples]
    /\ infected_statuses = StatusVectors(0)
    /\ adjacency_matrix = generate_adjacency_matrix(0, infected_statuses)
    /\ queries = 0
    /\ A_index = 0
    /\ susceptibility_factor = 0
    /\ severity_factors = NoVector
    /\ weights = NoVector
    /\ iw_seed = 0
    /\ max_distance = 0
    /\ rng_seed = 0
    /\ trav = NoTraversal
    /\ shadow = NoTraversal
    /\ shadow_matrix = NoVector
    /\ encrypted_ivs_scores = encrypt(NoVector)
    /\ classifications = NoVector
    /\ final_ivs_score = 0
    /\ decrypt_log = <<>>
    /\ input_line = NoInput
    /\ output = <<>>
    /\ SimIdle

\* lines 69-71 on any severities the generator can draw
DrawWeights ==
    /\ pc = "weights"
    /\ \E infection_severities \in [Infections -> SeverityGrid] :
        weights' = NormalisedWeights(infection_severities)
    /\ pc' = "classify"
    /\ UNCHANGED <<sim_vars, input_line, max_distance, adjacency_matrix, infected_statuses,
                   queries, A_index, susceptibility_factor, severity_factors,
                   iw_seed, rng_seed, trav, shadow, shadow_matrix,
                   encrypted_ivs_scores, decrypted_ivs_scores, classifications,
                   final_ivs_score, decrypt_log, output>>

ScoreNext ==
    \/ DrawWeights
    \/ Score
    \/ Report

ScoreSpec == ScoreInit /\ [][ScoreNext]_vars

\* ------------------------------------------- main when a library call raises
\* the places of a query where a call can raise: encrypt (74, 95), the
\* ciphertext product and sum (97), decrypt (147), classification and the
\* weighted sum over the decoded vector (148-150)
RaisingPlaces == {"call", "while", "returned", "classify"}

\* a bug: the handler swallows an exception of the scoring and the query
\* goes on to its prints
RaiseException_Swallowed ==
    /\ pc \in RaisingPlaces
    /\ output' = Append(output, "error")
    /\ pc' = IF pc = "classify" THEN "report" ELSE "input"
    /\ queries' = IF pc = "classify" THEN queries ELSE queries + 1
    /\ UNCHANGED <<sim_vars, input_line, max_distance, adjacency_matrix, infected_statuses,
                   A_index, susceptibility_factor, severity_factors, weights,
                   iw_seed, rng_seed, trav, shadow, shadow_matrix,
                   encrypted_ivs_scores, decrypted_ivs_scores, classifications,
                   final_ivs_score, decrypt_log>>

\* lines 164-165: an exception leaves the try block, the handler prints the
\* error and the loop goes on with the next prompt
RaiseException ==
    /\ pc \in RaisingPlaces
    /\ output' = Append(output, "error")
    /\ pc' = "input"
    /\ queries' = queries + 1
    /\ UNCHANGED <<sim_vars, input_line, max_distance, adjacency_matrix, infected_statuses,
                   A_index, susceptibility_factor, severity_factors, weights,
                   iw_seed, rng_seed, trav, shadow, shadow_matrix,
                   encrypted_ivs_scores, decrypted_ivs_scores, classifications,
                   final_ivs_score, decrypt_log>>

FaultNext ==
    \/ Next
    \/ RaiseException

FaultSpec == Init /\ [][FaultNext]_vars

\* ---------------------------------- main on a network that has active edges
\* a chain 0 -> 1 -> ... and the complete network
SessionShapes == {{e \in OffDiagonal : e[2] = e[1] + 1}, OffDiagonal}

\* main after line 127, had generate_adjacency_matrix produced integer weights
SessionInit ==
    /\ pc = "print"
    /\ \E active \in SessionShapes, sseed \in StatusSeeds :
        /\ infected_statuses = StatusVectors(sseed)
        /\ adjacency_matrix = AnyNetwork(active, 0, infected_statuses)
    /\ queries = 0
    /\ A_index = NoOwner
    /\ susceptibility_factor = 0
    /\ severity_factors = NoVector
    /\ weights = NoVector
    /\ iw_seed = 0
    /\ max_distance = 0
    /\ rng_seed = 0
    /\ trav = NoTraversal
    /\ shadow = NoTraversal
    /\ shadow_matrix = NoVector
    /\ encrypted_ivs_scores = encrypt(NoVector)
    /\ decrypted_ivs_scores = NoVector
    /\ classifications = NoVector
    /\ final_ivs_score = 0
    /\ decrypt_log = <<>>
    /\ input_line = NoInput
    /\ output = <<>>
    /\ SimIdle

SessionSpec == SessionInit /\ [][Next]_vars

\* ========================================================= Simulation/1.py
\* the state of main in IVS.py while a program of Simulation/ runs: not started
IvsIdle ==
    /\ pc = "off"
    /\ adjacency_matrix = NoVector
    /\ infected_statuses = NoVector
    /\ queries = 0
    /\ A_index = NoOwner
    /\ susceptibility_factor = 0
    /\ severity_factors = NoVector
    /\ weights = NoVector
    /\ iw_seed = 0
    /\ max_distance = 0
    /\ rng_seed = 0
    /\ trav = NoTraversal
    /\ shadow = NoTraversal
    /\ shadow_matrix = NoVector
    /\ encrypted_ivs_scores = encrypt(NoVector)
    /\ decrypted_ivs_scores = NoVector
    /\ classifications = NoVector
    /\ final_ivs_score = 0
    /\ decrypt_log = <<>>
    /\ input_line = NoInput
    /\ output = <<>>

\* user ids: n stands for "BU" followed by n
BanUserIds == 1 .. NumBanUsers

MinerOrder == <<"M1", "M2">>

MinerIds == {MinerOrder[k] : k \in DOMAIN MinerOrder}

\* RSA key pairs, named by a number: the public and the private key of a pair
\* carry the same number.  A user's pair has the user's number.
NoKey == 0 - 1

ForeignKey == NumBanUsers + 1

TAKey == NumBanUsers + 2

GAKey == NumBanUsers + 3

\* the id of the government authority ("GA1") as a key of user_public_keys
GovernmentId == 0

\* ---- dicts
EmptyDict == [k \in {} |-> 0]

DictSet(d, key, value) ==
    [k \in DOMAIN d \cup {key} |-> IF k = key THEN value ELSE d[k]]

\* dict.get(key), None being NoKey
DictGet(d, key) == IF key \in DOMAIN d THEN d[key] ELSE NoKey

\* ---- signatures (lines 26-58).  kind names the format of the signed string:
\* strings of different formats are taken to differ.
sign_data(private_key, kind, data) ==
    [by |-> private_key, kind |-> kind, data |-> data]

\* public_key.verify raises on a mismatch, and on None; both give False
verify_signature(public_key, signature, kind, data) ==
    /\ public_key # NoKey
    /\ signature.by = public_key
    /\ signature.kind = kind
    /\ signature.data = data

\* ---- the objects lines 342-347 construct
BanUser(n) == [id |-> n, public_key |-> n, private_key |-> n]

ban_users == {BanUser(n) : n \in BanUserIds}

NewTrustedAuthority ==
    [public_key |-> TAKey, private_key |-> TAKey, adjacency_matrix |-> "ta",
     id |-> "TA", user_public_keys |-> EmptyDict]

NewMiners ==
    [m \in MinerIds |->
        [trusted_authority_public_key |-> NoKey, adjacency_matrix |-> m,
         pending_updates |-> <<>>]]

NewHeap == [r \in MinerIds \cup {"ta"} |-> EmptyDict]

NoSignature == [by |-> NoKey, kind |-> "none", data |-> <<>>]

\* the last call of a receive method: its arguments, and whether it ran
\* execute_consensus
Call(m, method, ref, user_i_id, user_j_id, signature, sender) ==
    [miner |-> m, method |-> method, ref |-> ref, user_i |-> user_i_id,
     user_j |-> user_j_id, signature |-> signature, sender |-> sender,
     consensus |-> FALSE]

NoCall == Call("none", "none", "none", 0, 0, NoSignature, "none")

\* a consensus that records a contact in one direction only
RECURSIVE ApplyUpdates_OneWay(_, _)
ApplyUpdates_OneWay(d, pending) ==
    IF pending = <<>> THEN d
    ELSE LET update == Head(pending)
             d1 == IF update.type = "inter_ban_update"
                   THEN DictSet(d, <<update.user_i, update.user_j>>, 1)
                   ELSE d
         IN  ApplyUpdates_OneWay(d1, Tail(pending))

\* ---- Miner
\* lines 192-212: every pending inter_ban_update sets both entries to 1; a
\* proposed matrix (type "matrix") is skipped; the list is cleared
RECURSIVE ApplyUpdates(_, _)
ApplyUpdates(d, pending) ==
    IF pending = <<>> THEN d
    ELSE LET update == Head(pending)
             d1 == IF update.type = "inter_ban_update"
                   THEN DictSet(DictSet(d, <<update.user_i, update.user_j>>, 1),
                                <<update.user_j, update.user_i>>, 1)
                   ELSE d
         IN  ApplyUpdates(d1, Tail(pending))

\* st is [miners, heap, call]; call is the history of the call being made
execute_consensus(st, m) ==
    LET ref == st.miners[m].adjacency_matrix
    IN  [miners |-> [st.miners EXCEPT ![m].pending_updates = <<>>],
         heap |-> [st.heap EXCEPT ![ref] =
                      ApplyUpdates(@, st.miners[m].pending_updates)],
         call |-> [st.call EXCEPT !.consensus = TRUE]]

\* lines 186-190
propose_update(st, m, update) ==
    execute_consensus(
        [st EXCEPT !.miners[m].pending_updates = Append(@, update)], m)

\* lines 145-160; message.adjacency_matrix is a reference to a dict
receive_adjacency_matrix_init(st, m, message, signature, trusted_authority_id) ==
    LET called == [st EXCEPT !.call = Call(m, "init", message.adjacency_matrix,
                                           0, 0, signature, trusted_authority_id)]
    IN  IF trusted_authority_id # "TA" THEN called
        ELSE IF ~verify_signature(st.miners[m].trusted_authority_public_key,
                                  signature, "matrix",
                                  st.heap[message.adjacency_matrix])
        THEN called
        ELSE propose_update(
                 [called EXCEPT !.miners[m].adjacency_matrix =
                                    message.adjacency_matrix],
                 m, [type |-> "matrix", user_i |-> 0, user_j |-> 0])

\* receive_inter_ban_update without the check of the sender id
receive_inter_ban_update_AnySender(st, m, user_i_id, user_j_id, signature, trusted_authority_id) ==
    LET called == [st EXCEPT !.call = Call(m, "update", "none", user_i_id,
                                           user_j_id, signature, trusted_authority_id)]
    IN  IF ~verify_signature(st.miners[m].trusted_authority_public_key,
                             signature, "update", <<user_i_id, user_j_id>>)
        THEN called
        ELSE execute_consensus(
                 [called EXCEPT !.miners[m].pending_updates =
                     Append(@, [type |-> "inter_ban_update",
                                user_i |-> user_i_id, user_j |-> user_j_id])],
                 m)

\* lines 162-184
receive_inter_ban_update(st, m, user_i_id, user_j_id, signature, trusted_authority_id) ==
    LET called == [st EXCEPT !.call = Call(m, "update", "none", user_i_id,
                                           user_j_id, signature, trusted_authority_id)]
        update_data == <<user_i_id, user_j_id>>
    IN  IF trusted_authority_id # "TA" THEN called
        ELSE IF ~verify_signature(st.miners[m].trusted_authority_public_key,
                                  signature, "update", update_data)
        THEN called
        ELSE execute_consensus(
                 [called EXCEPT !.miners[m].pending_updates =
                     Append(@, [type |-> "inter_ban_update",
                                user_i |-> user_i_id, user_j |-> user_j_id])],
                 m)

\* lines 286-296: the miners are called in list order, from the k-th on
RECURSIVE broadcast_to_miners(_, _, _, _, _, _)
broadcast_to_miners(st, message, signature, message_type, user_id, k) ==
    IF k > Len(MinerOrder) THEN st
    ELSE LET m == MinerOrder[k]
             st1 == IF message_type = "InitAdjacency"
                    THEN receive_adjacency_matrix_init(st, m, message,
                                                       signature, user_id)
                    ELSE receive_inter_ban_update(st, m, message.user_i,
                                                  message.user_j, signature,
                                                  user_id)
         IN  broadcast_to_miners(st1, message, signature, message_type,
                                 user_id, k + 1)

\* ---- TrustedAuthority
\* lines 96-110: keys handed out and registered, the matrix filled with 0
DistributeKeys(st) ==
    LET registered ==
            [id \in BanUserIds \cup {GovernmentId} |->
                IF id = GovernmentId THEN GAKey ELSE BanUser(id).public_key]
        zeros == [k \in {e \in BanUserIds \X BanUserIds : e[1] # e[2]} |-> 0]
    IN  [miners |-> [m \in MinerIds |->
                        [st.miners[m] EXCEPT !.trusted_authority_public_key = TAKey]],
         heap |-> [st.heap EXCEPT !["ta"] = zeros],
         call |-> st.call,
         user_public_keys |-> registered]

\* the current state of miners and heap as the argument of a call
Now == [miners |-> miners, heap |-> heap, call |-> last_receive]

NoInteraction ==
    [pc |-> "idle", ban_user_i |-> BanUser(1), ban_user_j |-> BanUser(1),
     timestamp |-> 0, signature_i |-> NoSignature, signature_j |-> NoSignature,
     response |-> "unset", verified |-> "unbound", sent |-> FALSE,
     before |-> <<>>, count |-> 0]

\* lines 116-136: both signatures are checked under the REGISTERED keys
verify_inter_ban_communication(user_i_id, user_j_id, signature_i, signature_j, timestamp) ==
    LET public_key_i == DictGet(trusted_authority.user_public_keys, user_i_id)
        public_key_j == DictGet(trusted_authority.user_public_keys, user_j_id)
    IN  /\ public_key_i # NoKey
        /\ public_key_j # NoKey
        /\ verify_signature(public_key_i, signature_i, "hello",
                            <<user_j_id, user_i_id, timestamp>>)
        /\ verify_signature(public_key_j, signature_j, "reply",
                            <<user_j_id, user_i_id, timestamp>>)

\* ---- the users simulate_ban_user_interaction can be called with
\* a user that took the id of user 1 and has a key pair of its own
Impostor == [id |-> 1, public_key |-> ForeignKey, private_key |-> ForeignKey]

\* user 2 with a private key that does not belong to its public key
Mismatched == [id |-> 2, public_key |-> 2, private_key |-> ForeignKey]

\* a user the TA never registered
Stranger == [id |-> NumBanUsers + 1, public_key |-> ForeignKey,
             private_key |-> ForeignKey]

Initiators == ban_users \cup {Impostor, Mismatched, Stranger}

\* the responder encrypts to the TA key it was handed (line 264), so it is a
\* user initialize_system knows
Responders == ban_users

\* lines 342-347: the objects are constructed, initialize_system not yet called
BanInit ==
    /\ IvsIdle
    /\ heap = NewHeap
    /\ trusted_authority = NewTrustedAuthority
    /\ miners = NewMiners
    /\ interaction = [NoInteraction EXCEPT !.pc = "setup"]
    /\ last_receive = NoCall
    /\ contact_graph = <<>>
    /\ env = <<>>
    /\ users = <<>>

\* line 350, lines 94-114
InitializeSystem ==
    /\ interaction.pc = "setup"
    /\ LET st1 == DistributeKeys(Now)
           signature == sign_data(trusted_authority.private_key, "matrix",
                                  st1.heap[trusted_authority.adjacency_matrix])
           st2 == broadcast_to_miners(
                      st1, [adjacency_matrix |-> trusted_authority.adjacency_matrix],
                      signature, "InitAdjacency", trusted_authority.id, 1)
       IN  /\ trusted_authority' = [trusted_authority EXCEPT
                                       !.user_public_keys = st1.user_public_keys]
           /\ miners' = st2.miners
           /\ heap' = st2.heap
           /\ last_receive' = st2.call
    /\ interaction' = [interaction EXCEPT !.pc = "idle"]
    /\ UNCHANGED <<ivs_vars, contact_graph, env, users>>

\* lines 303-308: the call, and initiate_communication (lines 220-239)
BeginInteraction(ban_user_i, ban_user_j) ==
    /\ interaction.pc = "idle"
    /\ interaction.count < MaxInteractions
    /\ LET timestamp == interaction.count + 1
       IN  interaction' =
               [NoInteraction EXCEPT
                   !.pc = "initiated",
                   !.ban_user_i = ban_user_i,
                   !.ban_user_j = ban_user_j,
                   !.timestamp = timestamp,
                   !.signature_i = sign_data(ban_user_i.private_key, "hello",
                                             <<ban_user_j.id, ban_user_i.id, timestamp>>),
                   !.before = heap,
                   !.count = interaction.count]
    /\ UNCHANGED <<ivs_vars, heap, trusted_authority, miners, last_receive,
                   contact_graph, env, users>>

\* line 311, lines 241-277: the responder checks signature_i under the public
\* key the initiator object carries, and answers or returns None
HandleCommunication ==
    /\ interaction.pc = "initiated"
    /\ LET i == interaction.ban_user_i
           j == interaction.ban_user_j
           data == <<j.id, i.id, interaction.timestamp>>
       IN  interaction' =
               IF verify_signature(i.public_key, interaction.signature_i,
                                   "hello", data)
               THEN [interaction EXCEPT
                        !.pc = "handled",
                        !.response = "dict",
                        !.signature_j = sign_data(j.private_key, "reply", data)]
               ELSE [interaction EXCEPT !.pc = "handled", !.response = "None"]
    /\ UNCHANGED <<ivs_vars, heap, trusted_authority, miners, last_receive,
                   contact_graph, env, users>>

\* lines 313-323: verified is assigned only inside "if response:"
VerifyAtTA ==
    /\ interaction.pc = "handled"
    /\ interaction' =
           IF interaction.response = "dict"
           THEN [interaction EXCEPT
                    !.pc = "checked",
                    !.verified =
                        IF verify_inter_ban_communication(
                               interaction.ban_user_i.id, interaction.ban_user_j.id,
                               interaction.signature_i, interaction.signature_j,
                               interaction.timestamp)
                        THEN "True" ELSE "False"]
           ELSE [interaction EXCEPT !.pc = "checked"]
    /\ UNCHANGED <<ivs_vars, heap, trusted_authority, miners, last_receive,
                   contact_graph, env, users>>

\* lines 325-336: "if verified:" reads a name that is unbound when the
\* responder returned None, which raises UnboundLocalError; else the update is
\* signed and broadcast when verified
CheckVerified ==
    /\ interaction.pc = "checked"
    /\ IF interaction.verified = "unbound"
       THEN /\ interaction' = [interaction EXCEPT !.pc = "raised"]
            /\ UNCHANGED <<heap, miners, last_receive>>
       ELSE IF interaction.verified = "True"
       THEN LET i == interaction.ban_user_i.id
                j == interaction.ban_user_j.id
                signature == sign_data(trusted_authority.private_key, "update",
                                       <<i, j>>)
                st == broadcast_to_miners(Now, [user_i |-> i, user_j |-> j],
                                          signature, "InterBANUpdate",
                                          trusted_authority.id, 1)
            IN  /\ miners' = st.miners
                /\ heap' = st.heap
                /\ last_receive' = st.call
                /\ interaction' = [interaction EXCEPT !.pc = "end", !.sent = TRUE]
       ELSE /\ interaction' = [interaction EXCEPT !.pc = "end"]
            /\ UNCHANGED <<heap, miners, last_receive>>
    /\ UNCHANGED <<ivs_vars, trusted_authority, contact_graph, env, users>>

\* line 338: the interaction ends and the script goes on
EndInteraction ==
    /\ interaction.pc = "end"
    /\ interaction' = [interaction EXCEPT !.pc = "idle", !.count = @ + 1]
    /\ UNCHANGED <<ivs_vars, heap, trusted_authority, miners, last_receive,
                   contact_graph, env, users>>

BanNext ==
    \/ InitializeSystem
    \/ \E ban_user_i \in Initiators, ban_user_j \in Responders :
           BeginInteraction(ban_user_i, ban_user_j)
    \/ HandleCommunication
    \/ VerifyAtTA
    \/ CheckVerified
    \/ EndInteraction

BanSpec == BanInit /\ [][BanNext]_vars

\* the matrix a miner holds
MatrixOf(m) == heap[miners[m].adjacency_matrix]

\* ---- the miners under arbitrary deliveries
\* a dict an attacker made: every pair in contact
ForgedMatrix == [k \in {e \in BanUserIds \X BanUserIds : e[1] # e[2]} |-> 1]

\* the contacts the trusted authority signs updates for; the script's are
\* (BU1, BU2) and (BU2, BU3)
SignedPairs == {<<n, n + 1>> : n \in 1 .. NumBanUsers - 1}

Senders == {"TA", "BU1"}

\* what init signatures exist: the TA's over its matrix as first filled and as
\* it is now, and an attacker's over the dict it sends
InitSignatures(ref) ==
    {sign_data(trusted_authority.private_key, "matrix", DistributeKeys(Now).heap["ta"]),
     sign_data(trusted_authority.private_key, "matrix", heap["ta"]),
     sign_data(ForeignKey, "matrix", heap[ref])}

\* what update signatures exist: the TA's over the signed pairs, and an
\* attacker's over the pair it sends
UpdateSignatures(user_i_id, user_j_id) ==
    {sign_data(trusted_authority.private_key, "update", pair) : pair \in SignedPairs}
        \cup {sign_data(ForeignKey, "update", <<user_i_id, user_j_id>>)}

MinerInit ==
    /\ IvsIdle
    /\ heap = [r \in MinerIds \cup {"ta", "forged"} |->
                  IF r = "forged" THEN ForgedMatrix ELSE EmptyDict]
    /\ trusted_authority = NewTrustedAuthority
    /\ miners = NewMiners
    /\ interaction = [NoInteraction EXCEPT !.pc = "setup"]
    /\ last_receive = NoCall
    /\ contact_graph = <<>>
    /\ env = <<>>
    /\ users = <<>>

\* lines 96-110 of initialize_system, before its broadcast
HandOutKeys ==
    /\ interaction.pc = "setup"
    /\ LET st == DistributeKeys(Now)
       IN  /\ trusted_authority' = [trusted_authority EXCEPT
                                       !.user_public_keys = st.user_public_keys]
           /\ miners' = st.miners
           /\ heap' = st.heap
    /\ interaction' = [interaction EXCEPT !.pc = "idle"]
    /\ UNCHANGED <<ivs_vars, last_receive, contact_graph, env, users>>

\* a call of receive_adjacency_matrix_init, the TA's own broadcast included
DeliverInit(m, ref, signature, sender) ==
    /\ LET st == receive_adjacency_matrix_init(Now, m, [adjacency_matrix |-> ref],
                                               signature, sender)
       IN  /\ miners' = st.miners
           /\ heap' = st.heap
           /\ last_receive' = st.call
    /\ UNCHANGED <<ivs_vars, trusted_authority, interaction, contact_graph, env, users>>

\* a call of receive_inter_ban_update
DeliverUpdate(m, user_i_id, user_j_id, signature, sender) ==
    /\ LET st == receive_inter_ban_update(Now, m, user_i_id, user_j_id,
                                          signature, sender)
       IN  /\ miners' = st.miners
           /\ heap' = st.heap
           /\ last_receive' = st.call
    /\ UNCHANGED <<ivs_vars, trusted_authority, interaction, contact_graph, env, users>>

MinerNext ==
    \/ HandOutKeys
    \/ \E m \in MinerIds, ref \in {"ta", "forged"}, sender \in Senders :
           \E signature \in InitSignatures(ref) :
               DeliverInit(m, ref, signature, sender)
    \/ \E m \in MinerIds, pair \in SignedPairs, sender \in Senders :
           \E signature \in UpdateSignatures(pair[1], pair[2]) :
               DeliverUpdate(m, pair[1], pair[2], signature, sender)

MinerSpec == MinerInit /\ [][MinerNext]_vars

\* ========================================================= Simulation/2.py
\* lines 47-51 and 66-70: the objects lines 99-104 construct
NewTrustedAuthority2 ==
    [public_key |-> TAKey, private_key |-> TAKey, adjacency_matrix |-> "ta",
     id |-> "TA"]

NewMiners2 ==
    [m \in MinerIds |->
        [miner_id |-> m, trusted_authority_public_key |-> NoKey,
         adjacency_matrix |-> m]]

NoInteraction2 ==
    [pc |-> "idle", user_i_id |-> 1, user_j_id |-> 1, miner |-> 1,
     before |-> NewHeap, count |-> 0]

\* lines 72-77: the miner keeps the dict it is handed, not a copy of it
receive_adjacency_matrix_init2(miner, adjacency_matrix_ref, trusted_authority_id) ==
    IF trusted_authority_id = "TA"
    THEN [miner EXCEPT !.adjacency_matrix = adjacency_matrix_ref]
    ELSE miner

\* lines 139-140
verify_data(encrypted_data, signature_i, ban_user_i_public_key) == TRUE

Init2 ==
    /\ IvsIdle
    /\ heap = NewHeap
    /\ trusted_authority = NewTrustedAuthority2
    /\ miners = NewMiners2
    /\ interaction = [NoInteraction2 EXCEPT !.pc = "setup"]
    /\ last_receive = <<>>
    /\ contact_graph = <<>>
    /\ env = <<>>
    /\ users = <<>>

\* line 106, lines 52-64 and 91-94
InitializeSystem2 ==
    /\ interaction.pc = "setup"
    /\ heap' = [heap EXCEPT ![trusted_authority.adjacency_matrix] =
                    [k \in {e \in BanUserIds \X BanUserIds : e[1] # e[2]} |-> 0]]
    /\ miners' = [m \in MinerIds |->
                     receive_adjacency_matrix_init2(
                         [miners[m] EXCEPT !.trusted_authority_public_key =
                                               trusted_authority.public_key],
                         trusted_authority.adjacency_matrix, trusted_authority.id)]
    /\ interaction' = [interaction EXCEPT !.pc = "idle"]
    /\ UNCHANGED <<ivs_vars, trusted_authority, last_receive, contact_graph,
                   env, users>>

\* lines 108-127: the handshake, whose check always succeeds, up to the call
\* of handle_ta_communication
BeginInteraction2(ban_user_i, ban_user_j) ==
    /\ interaction.pc = "idle"
    /\ interaction.count < MaxInteractions
    /\ IF verify_data(ban_user_j.public_key, ban_user_i.id, ban_user_i.public_key)
       THEN interaction' = [interaction EXCEPT
                               !.pc = "handle",
                               !.user_i_id = ban_user_i.id,
                               !.user_j_id = ban_user_j.id,
                               !.miner = 1,
                               !.before = heap]
       ELSE interaction' = [interaction EXCEPT !.count = @ + 1]
    /\ UNCHANGED <<ivs_vars, heap, trusted_authority, miners, last_receive,
                   contact_graph, env, users>>

\* lines 132-137: one iteration of the loop over the miners
HandleTaCommunication ==
    /\ interaction.pc = "handle"
    /\ interaction.miner <= Len(MinerOrder)
    /\ LET miner == miners[MinerOrder[interaction.miner]]
           i == interaction.user_i_id
           j == interaction.user_j_id
       IN  heap' = IF miner.miner_id = "M1"
                   THEN [heap EXCEPT ![miner.adjacency_matrix] =
                            DictSet(DictSet(@, <<i, j>>, 1), <<j, i>>, 1)]
                   ELSE heap
    /\ interaction' = [interaction EXCEPT !.miner = @ + 1]
    /\ UNCHANGED <<ivs_vars, trusted_authority, miners, last_receive,
                   contact_graph, env, users>>

\* the loop is over: handle_ta_communication and the interaction return
EndInteraction2 ==
    /\ interaction.pc = "handle"
    /\ interaction.miner > Len(MinerOrder)
    /\ interaction' = [interaction EXCEPT !.pc = "idle", !.count = @ + 1]
    /\ UNCHANGED <<ivs_vars, heap, trusted_authority, miners, last_receive,
                   contact_graph, env, users>>

Next2 ==
    \/ InitializeSystem2
    \/ \E ban_user_i \in ban_users, ban_user_j \in ban_users :
           BeginInteraction2(ban_user_i, ban_user_j)
    \/ HandleTaCommunication
    \/ EndInteraction2

Spec2 == Init2 /\ [][Next2]_vars

\* ========================================================= Simulation/3.py
UserIds == 0 .. NUM_BAN_USERS - 1

\* random.randint(5, 10) of line 53: its least and its greatest value
TimeoutChoices == {5, 10}

\* ---- the simpy environment: a clock and a queue of scheduled events, kept in
\* the order simpy processes them: by time, then urgent before normal, then in
\* the order of scheduling
Event(time, priority, kind, user, other) ==
    [time |-> time, priority |-> priority, kind |-> kind, user |-> user,
     other |-> other]

Later(a, b) ==
    \/ a.time > b.time
    \/ a.time = b.time /\ a.priority = "normal" /\ b.priority = "urgent"

\* Environment.schedule: the event goes behind every event that is not later
Schedule(queue, event) ==
    LET n == Cardinality({k \in DOMAIN queue : ~Later(queue[k], event)})
    IN  SubSeq(queue, 1, n) \o <<event>> \o SubSeq(queue, n + 1, Len(queue))

\* Environment.process: a new process starts through an urgent event at now
Process(queue, now, kind, user, other) ==
    Schedule(queue, Event(now, "urgent", kind, user, other))

\* Environment.timeout, and the end of a process: normal events
Timeout(queue, now, delay, kind, user, other) ==
    Schedule(queue, Event(now + delay, "normal", kind, user, other))

RECURSIVE ScheduleAll(_, _)
ScheduleAll(queue, events) ==
    IF events = <<>> THEN queue
    ELSE ScheduleAll(Schedule(queue, Head(events)), Tail(events))

\* lines 99-106: the TA's process is created first, then one process per
\* user, then env.run schedules the end of the simulation
Init3 ==
    /\ IvsIdle
    /\ heap = <<>>
    /\ trusted_authority = <<>>
    /\ miners = <<>>
    /\ interaction = <<>>
    /\ last_receive = <<>>
    /\ contact_graph = EmptyDict
    /\ env = [now |-> 0,
              queue |-> ScheduleAll(<<>>,
                  <<Event(0, "urgent", "setup_system", 0, 0)>>
                  \o [u \in 1 .. NUM_BAN_USERS |-> Event(0, "urgent", "run", u - 1, 0)]
                  \o <<Event(Horizon, "urgent", "until", 0, 0)>>),
              ta |-> "created",
              stopped |-> FALSE]
    /\ users = [u \in UserIds |-> [at |-> "created", other |-> 0]]

\* the event env.step() processes next
Current == Head(env.queue)

Stepping(kind) ==
    /\ ~env.stopped
    /\ env.queue # <<>>
    /\ Current.kind = kind

\* env after the current event was popped, with the queue that remains
Popped(queue) == [env EXCEPT !.now = Current.time, !.queue = queue]

\* a setup that waits one time unit longer than a transaction
StartSetup_Late ==
    /\ Stepping("setup_system")
    /\ env' = [Popped(Timeout(Tail(env.queue), Current.time, TRANSACTION_DELAY + 1,
                              "setup_timeout", 0, 0))
                   EXCEPT !.ta = "waiting"]
    /\ UNCHANGED <<ivs_vars, heap, trusted_authority, miners, interaction,
                   last_receive, contact_graph, users>>

\* lines 78-80: setup_system runs up to its timeout
StartSetup ==
    /\ Stepping("setup_system")
    /\ env' = [Popped(Timeout(Tail(env.queue), Current.time, TRANSACTION_DELAY,
                              "setup_timeout", 0, 0))
                   EXCEPT !.ta = "waiting"]
    /\ UNCHANGED <<ivs_vars, heap, trusted_authority, miners, interaction,
                   last_receive, contact_graph, users>>

\* lines 82-87: every entry, the diagonal included, is set to 0
setup_system ==
    /\ Stepping("setup_timeout")
    /\ contact_graph' =
           [k \in DOMAIN contact_graph \cup (UserIds \X UserIds) |->
               IF k \in UserIds \X UserIds THEN 0 ELSE contact_graph[k]]
    /\ env' = [Popped(Tail(env.queue)) EXCEPT !.ta = "done"]
    /\ UNCHANGED <<ivs_vars, heap, trusted_authority, miners, interaction,
                   last_receive, users>>

\* a loop that does not skip the user itself
Others_WithSelf(u, start) == {o \in UserIds : o >= start}

\* the users the loop of line 44 looks at, from start on (line 45)
Others(u, start) == {o \in UserIds : o >= start /\ o # u}

\* lines 44-53: the loop goes on from start.  Which users are within range is
\* left open (the locations are random); at the first one that is, the user
\* starts initiate_contact and waits for it; with none left it sleeps
Scan(u, start) ==
    \/ \E o \in Others(u, start) :
           /\ env' = Popped(Process(Tail(env.queue), Current.time,
                                    "initiate_contact", u, o))
           /\ users' = [users EXCEPT ![u] = [at |-> "contact", other |-> o]]
    \/ \E delay \in TimeoutChoices :
           /\ env' = Popped(Timeout(Tail(env.queue), Current.time, delay,
                                    "run", u, 0))
           /\ users' = [users EXCEPT ![u] = [at |-> "timeout", other |-> 0]]

\* lines 39-53: a user's process starts, or wakes from its timeout, and runs
\* one pass of the loop up to its next yield
run ==
    /\ Stepping("run")
    /\ Scan(Current.user, 0)
    /\ UNCHANGED <<ivs_vars, heap, trusted_authority, miners, interaction,
                   last_receive, contact_graph>>

\* lines 55-61
initiate_contact ==
    /\ Stepping("initiate_contact")
    /\ env' = Popped(Process(Tail(env.queue), Current.time, "respond_to_contact",
                             Current.user, Current.other))
    /\ UNCHANGED <<ivs_vars, heap, trusted_authority, miners, interaction,
                   last_receive, contact_graph, users>>

\* lines 63-69: the signature of an honest sender verifies
respond_to_contact ==
    /\ Stepping("respond_to_contact")
    /\ env' = Popped(Process(Tail(env.queue), Current.time, "record_contact",
                             Current.user, Current.other))
    /\ UNCHANGED <<ivs_vars, heap, trusted_authority, miners, interaction,
                   last_receive, contact_graph, users>>

\* lines 89-91: record_contact runs up to its timeout
StartRecord ==
    /\ Stepping("record_contact")
    /\ env' = Popped(Timeout(Tail(env.queue), Current.time, TRANSACTION_DELAY,
                             "record_timeout", Current.user, Current.other))
    /\ UNCHANGED <<ivs_vars, heap, trusted_authority, miners, interaction,
                   last_receive, contact_graph, users>>

\* lines 93-96: both entries are written without a yield between them, and
\* the process ends
record_contact ==
    /\ Stepping("record_timeout")
    /\ contact_graph' =
           DictSet(DictSet(contact_graph, <<Current.user, Current.other>>, 1),
                   <<Current.other, Current.user>>, 1)
    /\ env' = Popped(Timeout(Tail(env.queue), Current.time, 0, "recorded",
                             Current.user, Current.other))
    /\ UNCHANGED <<ivs_vars, heap, trusted_authority, miners, interaction,
                   last_receive, users>>

\* line 67: respond_to_contact resumes and ends
Recorded ==
    /\ Stepping("recorded")
    /\ env' = Popped(Timeout(Tail(env.queue), Current.time, 0, "responded",
                             Current.user, Current.other))
    /\ UNCHANGED <<ivs_vars, heap, trusted_authority, miners, interaction,
                   last_receive, contact_graph, users>>

\* line 61: initiate_contact resumes and ends
Responded ==
    /\ Stepping("responded")
    /\ env' = Popped(Timeout(Tail(env.queue), Current.time, 0, "contacted",
                             Current.user, Current.other))
    /\ UNCHANGED <<ivs_vars, heap, trusted_authority, miners, interaction,
                   last_receive, contact_graph, users>>

\* line 51: run resumes and goes on with the next user of its loop
Contacted ==
    /\ Stepping("contacted")
    /\ Scan(Current.user, Current.other + 1)
    /\ UNCHANGED <<ivs_vars, heap, trusted_authority, miners, interaction,
                   last_receive, contact_graph>>

\* line 106: the simulation ends at the horizon
Until ==
    /\ Stepping("until")
    /\ env' = [Popped(Tail(env.queue)) EXCEPT !.stopped = TRUE]
    /\ UNCHANGED <<ivs_vars, heap, trusted_authority, miners, interaction,
                   last_receive, contact_graph, users>>

Next3 ==
    \/ StartSetup
    \/ setup_system
    \/ run
    \/ initiate_contact
    \/ respond_to_contact
    \/ StartRecord
    \/ record_contact
    \/ Recorded
    \/ Responded
    \/ Contacted
    \/ Until

Spec3 == Init3 /\ [][Next3]_vars

\* ================================================================ claims
InQuery == pc \in {"while", "returned", "classify", "report"}

BaseRisk == encrypt([j \in Infections |-> Fx(alpha)])

\* the persons marked visited so far, from the history
VisitedPersons(t) == {t.visit_log[k][1] : k \in DOMAIN t.visit_log}

\* the persons whose status vector was folded into a ciphertext
TermPersons(c) == {c.terms[k] : k \in DOMAIN c.terms}

\* C1: on a network built by generate_adjacency_matrix no edge is active, so a
\* query marks only its origin visited, enqueues nothing, adds no contribution
\* and returns the encoding of the base risk (alpha repeated NUM_INFECTIONS times).
C1_GeneratedNetworkBaseRiskOnly ==
    /\ \A e \in OffDiagonal : ~EdgeActive(adjacency_matrix, e[1], e[2])
    /\ InQuery =>
        /\ trav.visited \subseteq {A_index}
        /\ trav.enq_log = <<>>
        /\ trav.ivs_scores = BaseRisk
        /\ trav.ivs_scores.terms = <<>>
    /\ pc \in {"returned", "classify", "report"} =>
        /\ trav.visited = {A_index}
        /\ encrypted_ivs_scores = BaseRisk
        /\ \A j \in Infections : encrypted_ivs_scores.slots[j] = alpha * SCALE

C1_Witness ==
    /\ pc = "returned"
    /\ trav.visited = {A_index}
    /\ trav.reads # {}
    /\ encrypted_ivs_scores = BaseRisk

\* C2: the origin is marked visited exactly once and no person is marked
\* visited (has its neighbor loop run) more than once, also when a person sits
\* in the queue several times.
C2_VisitedAtMostOnce ==
    /\ \A k1, k2 \in DOMAIN trav.visit_log :
          k1 # k2 => trav.visit_log[k1][1] # trav.visit_log[k2][1]
    /\ trav.visited = VisitedPersons(trav)
    /\ trav.pops >= 1 =>
        /\ trav.visit_log[1] = <<A_index, 0>>
        /\ Cardinality({k \in DOMAIN trav.visit_log :
                           trav.visit_log[k][1] = A_index}) = 1

C2_Witness ==
    /\ pc = "returned"
    /\ \E k1, k2 \in DOMAIN trav.enq_log :
          /\ k1 # k2
          /\ trav.enq_log[k1][1] = trav.enq_log[k2][1]
          /\ trav.enq_log[k1][1] \in trav.visited
    /\ A_index \in trav.visited

\* C3 (as claimed): no ciphertext passed to decrypt is a person's stored
\* status vector.
C3_NoStatusEverDecrypted ==
    \A k \in DOMAIN decrypt_log : decrypt_log[k].arg.owner = NoOwner

\* C3 (amended): start-up decrypts every person's status vector once, in
\* person order (print_adjacency_matrix); after start-up the only ciphertext
\* passed to decrypt is the accumulator a query returned, never a stored
\* status vector.
C3_OnlyStartupDecryptsStatuses ==
    /\ pc # "print" => Len(decrypt_log) >= NUM_PEOPLE
    /\ \A k \in DOMAIN decrypt_log :
          IF k <= NUM_PEOPLE
          THEN decrypt_log[k].arg = adjacency_matrix[k - 1][k - 1]
          ELSE /\ decrypt_log[k].arg.owner = NoOwner
               /\ \A i \in Persons : decrypt_log[k].arg # adjacency_matrix[i][i]
    /\ pc = "classify" =>
          decrypt_log[Len(decrypt_log)].arg = trav.ivs_scores

C3_Witness ==
    /\ pc = "classify"
    /\ queries = 1
    /\ Len(decrypt_log) = NUM_PEOPLE + 2
\* C4: within a query decrypt is not called before calculate_ivs_score has
\* returned; a successful query calls it exactly once, on the returned
\* accumulator, with the queue empty and before classification and the
\* composite score are computed.  (Start-up made NUM_PEOPLE calls.)
C4_DecryptOnceAfterTraversal ==
    /\ pc \in {"input", "exit", "call", "while", "returned"} =>
          Len(decrypt_log) = NUM_PEOPLE + queries
    /\ pc \in {"classify", "report"} =>
        /\ Len(decrypt_log) = NUM_PEOPLE + queries + 1
        /\ decrypt_log[Len(decrypt_log)].arg = encrypted_ivs_scores
        /\ encrypted_ivs_scores = trav.ivs_scores
        /\ trav.queue = <<>>
    /\ pc = "classify" =>
        /\ classifications = NoVector
        /\ final_ivs_score = 0

C4_Witness ==
    /\ pc = "input"
    /\ queries = 2
    /\ classifications # NoVector
    /\ Len(decrypt_log) = NUM_PEOPLE + 2

\* C5: two runs that differ only in the status vectors mark the same persons
\* visited in the same order and enqueue the same entries in the same order.
C5_ControlFlowIgnoresStatuses ==
    /\ trav.visit_log = shadow.visit_log
    /\ trav.enq_log = shadow.enq_log
    /\ trav.queue = shadow.queue
    /\ trav.visited = shadow.visited
    /\ trav.pops = shadow.pops

C5_Witness ==
    /\ pc = "returned"
    /\ Len(trav.enq_log) >= 2
    /\ Len(trav.visit_log) >= 2
    /\ trav.ivs_scores.slots # shadow.ivs_scores.slots

\* C6: the while loop terminates: the queue becomes empty and the function
\* returns, also when every edge is active.  An entry at distance d weighs one
\* more than the NUM_PEOPLE - 1 entries at distance d + 1 its processing can
\* add; every iteration lowers the weight of the queue, a natural number, and
\* with the queue empty the only step is the return of the accumulator.
RECURSIVE EntryWeight(_)
EntryWeight(distance) ==
    IF distance > max_distance THEN 1
    ELSE 1 + (NUM_PEOPLE - 1) * EntryWeight(distance + 1)

RECURSIVE QueueWeight(_)
QueueWeight(queue) ==
    IF queue = <<>> THEN 0
    ELSE EntryWeight(Head(queue)[2]) + QueueWeight(Tail(queue))

\* C6: every iteration lowers the weight of the queue and stays in the loop;
\* with the queue empty the step is the return of the accumulator.
C6_Terminates ==
    [][pc = "while" =>
          IF trav.queue = <<>>
          THEN pc' = "returned" /\ encrypted_ivs_scores' = trav.ivs_scores
          ELSE /\ pc' = "while"
               /\ QueueWeight(trav'.queue) < QueueWeight(trav.queue)]_vars

\* the same as a liveness property, under the fairness of TravLive
C6_EventuallyReturns == <>(pc = "returned")

C6_Witness ==
    /\ pc = "returned"
    /\ max_distance = 5
    /\ trav.queue = <<>>
    /\ \A e \in OffDiagonal : EdgeActive(adjacency_matrix, e[1], e[2])
    /\ encrypted_ivs_scores = trav.ivs_scores

\* C7: popping an entry whose distance exceeds max_distance or whose person is
\* already visited changes nothing but the queue; every person marked visited
\* was popped at a distance in 0 .. max_distance.
C7_DiscardHasNoEffect ==
    /\ [][(/\ pc = "while"
           /\ trav.queue # <<>>
           /\ \/ Head(trav.queue)[2] > max_distance
              \/ Head(trav.queue)[1] \in trav.visited)
          => trav' = [trav EXCEPT !.queue = Tail(@), !.pops = @ + 1]]_vars
    /\ [](\A k \in DOMAIN trav.visit_log :
             trav.visit_log[k][2] \in 0 .. max_distance)

C7_Witness ==
    /\ pc = "returned"
    /\ trav.pops > Len(trav.visit_log)
    /\ \E k \in DOMAIN trav.enq_log :
          /\ trav.enq_log[k][2] > max_distance
          /\ trav.enq_log[k][1] \notin trav.visited

\* C8: the origin's own status vector is never folded into the accumulator,
\* whatever edges point back to the origin.
C8_OriginStatusNotUsed ==
    /\ A_index \notin TermPersons(trav.ivs_scores)
    /\ A_index \notin TermPersons(encrypted_ivs_scores)
    /\ <<A_index, A_index, "status">> \notin trav.reads
    /\ \A k \in DOMAIN trav.enq_log : trav.enq_log[k][1] # A_index

C8_Witness ==
    /\ pc = "returned"
    /\ trav.ivs_scores.terms # <<>>
    /\ \E p \in trav.visited \ {A_index} :
          EdgeActive(adjacency_matrix, p, A_index)

\* C9 (as claimed): with 3 persons, origin 0 and the edges 0->1 and 1->2
\* active, person 1 is enqueued while person 0 is processed, person 2 is then
\* enqueued while person 1 is processed, and the returned accumulator holds
\* exactly two contributions (max_distance 5).
C9_ChainHasTwoContributions ==
    (/\ pc = "returned"
     /\ NUM_PEOPLE = 3
     /\ max_distance = 5
     /\ A_index = 0
     /\ EdgeActive(adjacency_matrix, 0, 1)
     /\ EdgeActive(adjacency_matrix, 1, 2))
    => /\ \E k1, k2 \in DOMAIN trav.enq_log :
             /\ k1 < k2
             /\ trav.enq_log[k1] = <<1, 1, 0>>
             /\ trav.enq_log[k2] = <<2, 2, 1>>
       /\ Len(encrypted_ivs_scores.terms) = 2

\* C10: every diagonal cell holds a ciphertext and every off-diagonal cell a
\* plaintext number, in every state; the traversal tests weights only on
\* off-diagonal cells and takes ciphertexts only from diagonal cells.
PlainTypes == {"float", "int"}

C10_CellTypes ==
    /\ \A i \in Persons : adjacency_matrix[i][i].type = "CKKSVector"
    /\ \A e \in OffDiagonal : adjacency_matrix[e[1]][e[2]].type \in PlainTypes
    /\ \A r \in trav.reads :
          /\ r[3] = "weight" =>
                r[1] # r[2] /\ adjacency_matrix[r[1]][r[2]].type \in PlainTypes
          /\ r[3] = "status" =>
                r[1] = r[2] /\ adjacency_matrix[r[1]][r[2]].type = "CKKSVector"

C10_Witness ==
    /\ pc = "input"
    /\ queries = 2
    /\ Cardinality(trav.reads) = NUM_PEOPLE - 1
    /\ \A r \in trav.reads : r[3] = "weight" /\ r[1] = A_index

\* the traversal state a call reaches from state t by running the while loop
RECURSIVE RunLoop(_, _, _)
RunLoop(mat, q, t) ==
    IF t.queue = <<>> THEN t ELSE RunLoop(mat, q, WhileBody(mat, q, t))

\* empty visited set, queue holding only (origin, 0), accumulator = base risk
FirstState(origin) ==
    [visited |-> {}, queue |-> <<<<origin, 0>>>>, ivs_scores |-> BaseRisk,
     visit_log |-> <<>>, enq_log |-> <<>>, reads |-> {}, draws |-> 0,
     pops |-> 0]

\* C11: no step changes the contact network or a stored status ciphertext;
\* every query starts from an empty visited set, a queue holding only
\* (origin, 0) and the base-risk accumulator; and the visited set, the enqueue
\* sequence and the contribution count it returns with are those of a run
\* from that first state on the network, whatever queries ran before it.
C11_QueriesIndependent ==
    [][/\ adjacency_matrix' = adjacency_matrix
       /\ (pc = "call" /\ pc' = "while") => trav' = FirstState(A_index)
       /\ (pc = "while" /\ pc' = "returned") =>
             LET r == RunLoop(adjacency_matrix, QueryEnv, FirstState(A_index))
             IN  /\ trav'.visited = r.visited
                 /\ trav'.enq_log = r.enq_log
                 /\ Len(trav'.ivs_scores.terms) = Len(r.ivs_scores.terms)
                 /\ encrypted_ivs_scores' = r.ivs_scores]_vars

\* a second query returns with contributions after a first one returned with
\* contributions of its own
C11_Witness ==
    /\ pc = "returned"
    /\ queries = 1
    /\ Len(trav.enq_log) >= 2
    /\ Len(decrypt_log) = NUM_PEOPLE + 1
    /\ decrypt_log[NUM_PEOPLE + 1].arg.terms # <<>>
    /\ decrypt_log[NUM_PEOPLE + 1].arg.terms # trav.ivs_scores.terms

\* C12: a query whose index is NUM_PEOPLE or a larger non-negative integer is
\* reported as an invalid person index and nothing else is printed; the step
\* runs no traversal and no decrypt, leaves the network and the stored
\* ciphertexts as they were and returns to the prompt; no traversal ever
\* runs from an index outside range(NUM_PEOPLE).
C12_IndexTooLarge ==
    [][/\ (/\ pc = "input"
           /\ input_line'.kind = "digits"
           /\ input_line'.val >= NUM_PEOPLE) =>
              /\ output' = <<"invalid_index">>
              /\ pc' = "input"
              /\ adjacency_matrix' = adjacency_matrix
              /\ trav' = trav
              /\ decrypt_log' = decrypt_log
              /\ encrypted_ivs_scores' = encrypt(NoVector)
              /\ decrypted_ivs_scores' = NoVector
              /\ queries' = queries
       /\ pc' \in {"call", "while", "returned", "classify", "report"} =>
              A_index' \in Persons]_vars

\* index NUM_PEOPLE was rejected after a query that succeeded, and the next
\* prompt is open
C12_Witness ==
    /\ pc = "input"
    /\ input_line = [kind |-> "digits", val |-> NUM_PEOPLE]
    /\ output = <<"invalid_index">>
    /\ queries = 1
    /\ queries < MaxQueries
    /\ ENABLED Prompt

\* the lines that spell an integer: decimal digits, with or without a minus sign
IntegerKinds == {"digits", "minus"}

\* C13: every integer typed at the prompt that lies outside [0, NUM_PEOPLE),
\* negative ones included, is reported as an invalid person index, and the
\* invalid-input message is printed only for a line that is not an integer.
C13_OutOfRangeIsIndexError ==
    [][pc = "input" =>
         /\ (/\ input_line'.kind \in IntegerKinds
             /\ input_line'.val \notin Persons) =>
                output' = <<"invalid_index">>
         /\ output' = <<"invalid_input">> =>
                input_line'.kind \notin IntegerKinds]_vars

\* what a pass of main's loop has printed, as a set
Printed(out) == {out[k] : k \in DOMAIN out}

\* C14: an exception raised during the traversal, the decrypt or the scoring
\* of a query ends that query: the error report is all the pass prints (no
\* per-infection score, composite score, classification or final decision),
\* the scoring results are not produced after it, and the next prompt follows.
C14_ExceptionAbortsQuery ==
    [][/\ "error" \in Printed(output') =>
             /\ output' = <<"error">>
             /\ pc' = "input"
       /\ (pc \in RaisingPlaces /\ pc' \notin {"while", "returned", "classify", "report"}) =>
             /\ output' = <<"error">>
             /\ pc' = "input"
             /\ classifications' = classifications
             /\ final_ivs_score' = final_ivs_score
             /\ adjacency_matrix' = adjacency_matrix]_vars

\* the scoring of a query raised after its decrypt had succeeded
C14_Witness ==
    /\ pc = "input"
    /\ output = <<"error">>
    /\ input_line.kind = "digits"
    /\ decrypted_ivs_scores # NoVector
    /\ classifications = NoVector

\* the three tiers of the claim, with the bounds written out
Tier(s) ==
    IF s < 800 * SCALE THEN "low"
    ELSE IF s < 1200 * SCALE THEN "middle"
    ELSE "high"

LabelOfTier == [low |-> "safe", middle |-> "caution", high |-> "high_risk"]

DecisionOfTier ==
    [low |-> "allowed", middle |-> "avoid_large_gatherings",
     high |-> "not_allowed"]

\* C15: classify_ivs_score and get_final_decision put a score s in the same
\* tier: s < 800 safe / allowed, 800 <= s < 1200 caution / avoid large
\* gatherings, s >= 1200 high risk / not allowed; classify_ivs_score returns
\* one label per infection, in infection order; the decision printed is the
\* tier of the composite score.
C15_SameTiers ==
    /\ pc \in {"report", "input"} =>
        /\ DOMAIN classifications = Infections
        /\ \A i \in Infections :
              /\ classifications[i].infection = i
              /\ classifications[i].label = LabelOfTier[Tier(decrypted_ivs_scores[i])]
              /\ get_final_decision(decrypted_ivs_scores[i]) =
                     DecisionOfTier[Tier(decrypted_ivs_scores[i])]
    /\ (pc = "input" /\ queries > 0) =>
          output[Len(output)] = DecisionOfTier[Tier(final_ivs_score)]

\* a score of exactly 800 is classified caution, one of exactly 1200 high risk
C15_Witness ==
    /\ pc = "input"
    /\ decrypted_ivs_scores[1] = 800 * SCALE
    /\ classifications[1].label = "caution"
    /\ decrypted_ivs_scores[NUM_INFECTIONS] = 1200 * SCALE
    /\ classifications[NUM_INFECTIONS].label = "high_risk"
    /\ output[Len(output)] = "avoid_large_gatherings"

RECURSIVE SumTo(_, _)
SumTo(w, j) == IF j = 0 THEN 0 ELSE w[j] + SumTo(w, j - 1)

HasWeights == pc \in {"classify", "report", "input"}

\* C16 as stated: the weights are NUM_INFECTIONS values, each strictly
\* positive, and their sum is exactly 1.
C16_WeightsSumToOne ==
    HasWeights =>
        /\ DOMAIN weights = Infections
        /\ \A j \in Infections : weights[j] > 0
        /\ SumTo(weights, NUM_INFECTIONS) = SCALE

\* C16 (amended): the weights are NUM_INFECTIONS values, each strictly
\* positive and at most 1, and their sum is 1 up to the rounding of the
\* divisions (less than one unit of the last place per weight).
C16_WeightsSumToOneRounded ==
    HasWeights =>
        /\ DOMAIN weights = Infections
        /\ \A j \in Infections : weights[j] > 0 /\ weights[j] <= SCALE
        /\ SumTo(weights, NUM_INFECTIONS) <= SCALE
        /\ SumTo(weights, NUM_INFECTIONS) > SCALE - NUM_INFECTIONS

\* weights whose sum is not exactly 1, drawn from unequal severities
C16_Witness ==
    /\ pc = "classify"
    /\ weights[1] # weights[NUM_INFECTIONS]
    /\ SumTo(weights, NUM_INFECTIONS) < SCALE

\* the persons joined to origin by a path of at most k active edges
RECURSIVE Within(_, _, _)
Within(mat, origin, k) ==
    IF k = 0 THEN {origin}
    ELSE LET near == Within(mat, origin, k - 1)
         IN  near \cup {j \in Persons :
                           \E i \in near : i # j /\ EdgeActive(mat, i, j)}

\* the number of edges of a shortest active path from origin to each person
\* it reaches
ShortestPaths(mat, origin) ==
    LET within == [d \in 0 .. NUM_PEOPLE |-> Within(mat, origin, d)]
    IN  [person \in within[NUM_PEOPLE] |->
            CHOOSE d \in 0 .. NUM_PEOPLE :
                /\ person \in within[d]
                /\ d > 0 => person \notin within[d - 1]]

\* C17: the distance of the entry popped next is never below the distance of
\* the entry popped before it, and every person marked visited is marked at
\* the length of a shortest path of active edges from the origin.
C17_BreadthFirst ==
    [][/\ (trav.queue # <<>> /\ trav'.queue # <<>>) =>
             Head(trav.queue)[2] <= Head(trav'.queue)[2]
       /\ \A k \in DOMAIN trav'.queue :
             Head(trav'.queue)[2] <= trav'.queue[k][2]
       /\ LET distances == ShortestPaths(adjacency_matrix, A_index)
          IN  \A k \in DOMAIN trav'.visit_log :
                 /\ trav'.visit_log[k][1] \in DOMAIN distances
                 /\ trav'.visit_log[k][2] = distances[trav'.visit_log[k][1]]]_vars

\* person 2 is reached over one edge and over two and is marked at distance 1
C17_Witness ==
    /\ pc = "returned"
    /\ A_index = 0
    /\ trav.visit_log = <<<<0, 0>>, <<1, 1>>, <<2, 1>>>>
    /\ \E k \in DOMAIN trav.enq_log : trav.enq_log[k] = <<2, 2, 1>>

\* C18: when calculate_ivs_score returns, the visited set is the set of
\* persons joined to the origin by a path of at most max_distance active
\* edges, the origin included.
C18_VisitedIsReachable ==
    pc = "returned" =>
        trav.visited = Within(adjacency_matrix, A_index, max_distance)

\* the depth limit cut the traversal short: a person two edges away is not
\* visited with max_distance 1
C18_Witness ==
    /\ pc = "returned"
    /\ max_distance = 1
    /\ Cardinality(trav.visited) >= 2
    /\ trav.visited # Within(adjacency_matrix, A_index, NUM_PEOPLE)

\* C19: within one query the status vector of a person is added into the
\* accumulator at most once.
C19_AtMostOneContribution ==
    \A k1, k2 \in DOMAIN trav.ivs_scores.terms :
        k1 # k2 => trav.ivs_scores.terms[k1] # trav.ivs_scores.terms[k2]

\* the active neighbors of person that are not visited while it is processed
Unvisited(t, person) ==
    {n \in Persons \ (t.visited \cup {person}) :
        EdgeActive(adjacency_matrix, person, n)}

Smallest(v) == CHOOSE m \in {v[i] : i \in DOMAIN v} : \A i \in DOMAIN v : m <= v[i]

Largest(v) == CHOOSE m \in {v[i] : i \in DOMAIN v} : \A i \in DOMAIN v : v[i] <= m

Scored == pc \in {"report", "input"}

AllLabelled(label) == \A i \in Infections : classifications[i].label = label

\* C21 as stated: the composite score lies between the smallest and the
\* largest decoded score; when every label is safe the decision is allowed,
\* when every label is high risk it is not allowed.
C21_CompositeBetweenScores ==
    /\ Scored =>
          /\ Smallest(decrypted_ivs_scores) <= final_ivs_score
          /\ final_ivs_score <= Largest(decrypted_ivs_scores)
    /\ (pc = "input" /\ queries > 0) =>
          /\ AllLabelled("safe") => output[Len(output)] = "allowed"
          /\ AllLabelled("high_risk") => output[Len(output)] = "not_allowed"

\* the rounding a score of size x can suffer in the weighted sum: one unit of
\* the last place per weight, scaled by x, and one per product
Slack(x) ==
    ((IF x < 0 THEN 0 - x ELSE x) * NUM_INFECTIONS) \div SCALE + NUM_INFECTIONS

\* C21 (amended): the composite score lies between the smallest and the
\* largest decoded score up to the rounding of the weights and the products;
\* when every score is below 800 by more than that rounding the decision is
\* allowed, when every score is above 1200 by more than it, not allowed.
C21_CompositeBetweenScoresRounded ==
    /\ Scored =>
          /\ Smallest(decrypted_ivs_scores) - Slack(Smallest(decrypted_ivs_scores))
                 <= final_ivs_score
          /\ final_ivs_score <=
                 Largest(decrypted_ivs_scores) + Slack(Largest(decrypted_ivs_scores))
    /\ (pc = "input" /\ queries > 0) =>
          /\ (\A i \in Infections :
                  decrypted_ivs_scores[i] + Slack(decrypted_ivs_scores[i]) < 800 * SCALE)
                => output[Len(output)] = "allowed"
          /\ (\A i \in Infections :
                  decrypted_ivs_scores[i] - Slack(decrypted_ivs_scores[i]) >= 1200 * SCALE)
                => output[Len(output)] = "not_allowed"

\* every score is 2000, the composite score came out below it through
\* rounding, and the decision is not allowed
C21_Witness ==
    /\ pc = "input"
    /\ \A i \in Infections : decrypted_ivs_scores[i] = 2000 * SCALE
    /\ final_ivs_score < 2000 * SCALE
    /\ AllLabelled("high_risk")
    /\ output[Len(output)] = "not_allowed"

\* the message of the call verifies under the trusted authority's public key
\* and names "TA" as its sender; the matrix is read as it was at the call
ValidCall(call) ==
    /\ call.sender = "TA"
    /\ \/ /\ call.method = "init"
          /\ verify_signature(trusted_authority.public_key, call.signature,
                              "matrix", heap[call.ref])
       \/ /\ call.method = "update"
          /\ verify_signature(trusted_authority.public_key, call.signature,
                              "update", <<call.user_i, call.user_j>>)

MinerChanged(m) ==
    \/ miners'[m].adjacency_matrix # miners[m].adjacency_matrix
    \/ heap'[miners'[m].adjacency_matrix] # MatrixOf(m)
    \/ miners'[m].pending_updates # miners[m].pending_updates

\* C22: a miner's adjacency matrix and pending updates change only in a step
\* that delivers a message with sender "TA" and a signature that verifies under
\* the trusted authority's public key; a receive call with another sender or an
\* invalid signature changes no miner's matrix or pending updates and runs no
\* consensus
C22_OnlyTrustedMessagesChangeMiners ==
    [][/\ (\E m \in MinerIds : MinerChanged(m)) => ValidCall(last_receive')
       /\ (last_receive' # NoCall /\ ~ValidCall(last_receive')) =>
              /\ \A m \in MinerIds : ~MinerChanged(m)
              /\ ~last_receive'.consensus]_vars

\* a forged call was rejected by a miner that holds the TA's matrix with a
\* recorded contact
C22_Witness ==
    /\ last_receive # NoCall
    /\ last_receive.sender = "TA"
    /\ last_receive.signature.by = ForeignKey
    /\ ~last_receive.consensus
    /\ miners[last_receive.miner].adjacency_matrix = "ta"
    /\ \E k \in DOMAIN heap["ta"] : heap["ta"][k] = 1

\* the interaction in progress is between two distinct registered users with
\* their own keys
HonestPair ==
    /\ interaction.ban_user_i \in ban_users
    /\ interaction.ban_user_j \in ban_users
    /\ interaction.ban_user_i.id # interaction.ban_user_j.id

\* what miner m held when the interaction began
MatrixBefore(m) == interaction.before[miners[m].adjacency_matrix]

\* C23: after initialize_system an interaction between two distinct registered
\* honest users does not raise, the responder answers, the trusted authority
\* verifies both signatures, and at its end every miner's matrix holds 1 at
\* (i,j) and (j,i), every other entry is as before, and every miner's pending
\* updates are empty
C23_HonestInteractionRecorded ==
    HonestPair =>
        /\ interaction.pc # "raised"
        /\ interaction.pc \in {"handled", "checked", "end"} =>
               interaction.response = "dict"
        /\ interaction.pc = "checked" => interaction.verified = "True"
        /\ interaction.pc = "end" =>
               /\ interaction.verified = "True"
               /\ LET i == interaction.ban_user_i.id
                      j == interaction.ban_user_j.id
                  IN  \A m \in MinerIds :
                          /\ DOMAIN MatrixOf(m) = DOMAIN MatrixBefore(m)
                          /\ \A k \in DOMAIN MatrixOf(m) :
                                 MatrixOf(m)[k] =
                                     IF k \in {<<i, j>>, <<j, i>>} THEN 1
                                     ELSE MatrixBefore(m)[k]
                          /\ miners[m].pending_updates = <<>>

\* the second interaction of a run, between honest users, is at its end and
\* turned an entry from 0 to 1 while an earlier contact is still recorded
C23_Witness ==
    /\ HonestPair
    /\ interaction.pc = "end"
    /\ interaction.count = 1
    /\ MatrixBefore("M2")[<<interaction.ban_user_i.id, interaction.ban_user_j.id>>] = 0
    /\ \E k \in DOMAIN MatrixBefore("M2") : MatrixBefore("M2")[k] = 1

\* C24: when the responder returned None or the trusted authority's
\* verification failed, the interaction does not raise, broadcasts no update
\* and leaves every miner's matrix as it was
C24_FailedHandshakeCompletes ==
    (interaction.response = "None" \/ interaction.verified = "False") =>
        /\ interaction.pc # "raised"
        /\ ~interaction.sent
        /\ \A m \in MinerIds : MatrixOf(m) = MatrixBefore(m)

\* handle_ta_communication has run through all miners
HandledAll == interaction.pc = "handle" /\ interaction.miner > Len(MinerOrder)

\* C25: after handle_ta_communication ran for distinct users i and j whose
\* contact was not recorded before, the matrix of every miner other than M1
\* and the matrix of the trusted authority still hold 0 at (i,j) and (j,i)
C25_OnlyM1Records ==
    LET i == interaction.user_i_id
        j == interaction.user_j_id
        ta == trusted_authority.adjacency_matrix
    IN  (HandledAll /\ i # j /\ interaction.before[ta][<<i, j>>] = 0) =>
            /\ \A m \in MinerIds \ {"M1"} :
                   /\ MatrixOf(m)[<<i, j>>] = 0
                   /\ MatrixOf(m)[<<j, i>>] = 0
            /\ heap[ta][<<i, j>>] = 0
            /\ heap[ta][<<j, i>>] = 0

\* C26: in every state of the simulation the contact graph is symmetric, an
\* entry (i,j) being present exactly when (j,i) is and equal to it, and no
\* entry (i,i) is 1
C26_SymmetricNoSelfContact ==
    \A k \in DOMAIN contact_graph :
        /\ <<k[2], k[1]>> \in DOMAIN contact_graph
        /\ contact_graph[<<k[2], k[1]>>] = contact_graph[k]
        /\ k[1] = k[2] => contact_graph[k] # 1

\* a contact is recorded, another pair is not in contact, and a further
\* record_contact is waiting for its timeout
C26_Witness ==
    /\ \E k \in DOMAIN contact_graph : contact_graph[k] = 1
    /\ \E k \in DOMAIN contact_graph : k[1] # k[2] /\ contact_graph[k] = 0
    /\ \E n \in DOMAIN env.queue : env.queue[n].kind = "record_timeout"

\* C27: record_contact writes only after the trusted authority has set the
\* contact graph to 0, and an entry that is 1 is 1 in the next state too
C27_SetupBeforeRecords ==
    [][/\ Stepping("record_timeout") => env.ta = "done"
       /\ \A k \in DOMAIN contact_graph :
              contact_graph[k] = 1 =>
                  k \in DOMAIN contact_graph' /\ contact_graph'[k] = 1]_vars

\* a contact started at time 0 was recorded at the time of the setup, after it
C27_Witness ==
    /\ env.now = TRANSACTION_DELAY
    /\ env.ta = "done"
    /\ \E k \in DOMAIN contact_graph : contact_graph[k] = 1

====
